---- MODULE Spec2Model ----
(***************************************************************************)
(* Ergomotion adjustable-bed integration: the BLE session manager          *)
(* (core/client.py, class Client) and the reconciliation engine            *)
(* (core/device.py, class Device), as one state machine.                   *)
(*                                                                         *)
(* Python values are modelled as follows.  bytes are sequences of          *)
(* integers 0..255.  A dict is a function whose DOMAIN is its key set;     *)
(* the insertion-ordered dict target_state is a sequence of                *)
(* [attr, target] records in insertion order.  None is the string "None"   *)
(* and is never compared with a number: every d.get(k) is guarded by a     *)
(* test of k \in DOMAIN d.  An exception that leaves a handler is the      *)
(* value of err after the step; the assignments made before the raise      *)
(* are kept, as in Python.                                                 *)
(*                                                                         *)
(* Time.  Every deadline the program stores (ping_time, the deadlines of   *)
(* its sleeps) is kept as the time left until it, so time.time() is the    *)
(* constant now and the passing of d seconds (Tick) lowers every deadline  *)
(* by d.  A deadline in the past is kept as now: the program only tests    *)
(* deadlines with "> now".                                                 *)
(***************************************************************************)
EXTENDS Integers, Sequences, FiniteSets, TLC

VARIABLES
    \* ---- Device (device.py:61-75)
    connected,       \* Device.connected
    current_data,    \* Device.current_data: the last accepted frame, or NoData
    current_state,   \* Device.current_state: dict, {} before the first frame
    target_state,    \* Device.target_state: insertion-ordered dict
    \* ---- Client (client.py:26-41)
    client,          \* Client.client: None or the BleakClient handle
    ping_task,       \* Client.ping_task: None or the session loop task
    ping_loops,      \* number of _ping_loop tasks created and not yet finished
    ping_time,       \* Client.ping_time: expiry deadline
    send_task,       \* Client.send_task: None or the send task
    send_data,       \* Client.send_data: payload slot read by _send_coro
    poll_task,       \* Client.poll_task: None or the poll task
    \* ---- positions of the coroutines at their awaits
    ping_pc,         \* _ping_loop
    send_pc,         \* _send_coro
    poll_pc,         \* _poll_status
    wake_at,         \* deadline of the asyncio.sleep the session loop is in
    poll_wake_at,    \* deadline of the asyncio.sleep the poll task is in
    \* ---- the link (environment)
    link_up,         \* BleakClient.is_connected of the current handle
    subscribed,      \* start_notify is in force on the current handle
    leaked,          \* a handle was dropped while its link was still up
    \* ---- what the last step did (observation only, never read by the program)
    written,         \* the write it completed on the command channel, if any
    op,              \* name of the last handler or coroutine step
    arg,             \* its argument
    did,             \* the calls it made, as a set of names
    calls,           \* command keys it handed to Client.send, in order
    scanned,         \* attrs the scan loop of send_command visited in it
    err,             \* "ok" or the exception that left it
    accepted,        \* payload of the send call that created the pending send task
    inflight         \* payload the send task passed to write_gatt_char

vars == <<connected, current_data, current_state, target_state,
          client, ping_task, ping_loops, ping_time, send_task, send_data,
          poll_task,
          ping_pc, send_pc, poll_pc, wake_at, poll_wake_at,
          link_up, subscribed, leaked, written,
          op, arg, did, calls, scanned, err, accepted, inflight>>

deviceVars == <<connected, current_data, current_state, target_state>>
sendVars   == <<send_task, send_data, send_pc, accepted, inflight>>
pollVars   == <<poll_task, poll_pc, poll_wake_at>>
loopVars   == <<client, ping_task, ping_loops, ping_pc, wake_at, link_up, subscribed, leaked>>

None == "None"
NoData == <<None>>

\* ------------------------------------------------------------ constants
MIN_STEP == 100
ACTIVE_TIME == 120
POLL_INTERVAL == 1
COOLDOWN == 1

SCENE_OPTIONS == <<"flat", "snore", "memory1", "memory2", "memory3", "zerog">>
TIMER_OPTIONS == <<"10", "20", "30">>

COMMANDS_NUS_6BYTE ==
    [head_up      |-> <<4, 2, 0, 0, 0, 16>>,
     head_down    |-> <<4, 2, 0, 0, 0, 32>>,
     foot_up      |-> <<4, 2, 0, 0, 0, 4>>,
     foot_down    |-> <<4, 2, 0, 0, 0, 8>>,
     lumbar_up    |-> <<4, 2, 0, 0, 64, 0>>,
     lumbar_down  |-> <<4, 2, 0, 0, 128, 0>>,
     neck_up      |-> <<4, 2, 0, 0, 0, 1>>,
     neck_down    |-> <<4, 2, 0, 0, 0, 2>>,
     flat         |-> <<4, 2, 8, 0, 0, 0>>,
     zerog        |-> <<4, 2, 0, 0, 16, 0>>,
     snore        |-> <<4, 2, 0, 0, 128, 0>>,
     memory1      |-> <<4, 2, 0, 1, 0, 0>>,
     memory2      |-> <<4, 2, 0, 0, 32, 0>>,
     memory3      |-> <<4, 2, 0, 0, 64, 0>>,
     stop         |-> <<4, 2, 8, 0, 0, 0>>,
     head_massage |-> <<4, 2, 0, 0, 8, 0>>,
     foot_massage |-> <<4, 2, 0, 0, 4, 0>>,
     led_toggle   |-> <<4, 2, 0, 2, 0, 0>>,
     timer_cycle  |-> <<4, 2, 0, 0, 2, 0>>]

WAKEUP_COMMAND_TEST == <<4, 2, 8, 0, 0, 0>>

\* The attributes and methods an instance of Client has (client.py:26-141).
\* An attribute access outside this set raises AttributeError.
ClientAttrs ==
    {"device", "callback", "client", "ping_task", "ping_time", "send_task",
     "send_data", "poll_task", "ping", "_ping_loop", "_poll_status", "send",
     "_send_coro"}

\* ------------------------------------------------------------ Python helpers
Abs(x) == IF x < 0 THEN 0 - x ELSE x

\* data[lo:hi] with 0-based lo and exclusive hi, clipped as Python clips it
Slice(data, lo, hi) ==
    LET h == IF hi > Len(data) THEN Len(data) ELSE hi
    IN  IF lo >= h THEN <<>> ELSE SubSeq(data, lo + 1, h)

\* int.from_bytes(b, "little") of a slice of at most two bytes
FromBytesLE(b) ==
    IF Len(b) = 0 THEN 0
    ELSE IF Len(b) = 1 THEN b[1]
    ELSE b[1] + 256 * b[2]

\* x & m for a mask m that is a single bit or 0xF
BitAnd(x, m) ==
    IF m = 15 THEN x % 16 ELSE ((x \div m) % 2) * m

\* d.get(k)
Get(d, k) == IF k \in DOMAIN d THEN d[k] ELSE None

\* truthiness of d.get(k) for the boolean-valued keys of current_state
Truthy(d, k) == k \in DOMAIN d /\ d[k] = TRUE

\* ------------------------------------------------------------ ordered dict
Keys(ts) == {ts[i].attr : i \in 1..Len(ts)}

IndexOf(ts, k) == CHOOSE i \in 1..Len(ts) : ts[i].attr = k

Lookup(ts, k) == ts[IndexOf(ts, k)].target

\* d[k] = v: replaced in place when k is a key, appended otherwise
SetItem(ts, k, v) ==
    IF k \in Keys(ts)
    THEN [ts EXCEPT ![IndexOf(ts, k)] = [attr |-> k, target |-> v]]
    ELSE Append(ts, [attr |-> k, target |-> v])

\* d.pop(k)
Pop(ts, k) == SelectSeq(ts, LAMBDA e : e.attr # k)

\* ------------------------------------------------------------ frame decoding
\* mutant: the 0xED layout is accepted at any length of 16 or more
AcceptsAnyLength(data) ==
    /\ Len(data) > 0
    /\ Len(data) >= 16
    /\ \/ data[1] = 237
       \/ data[1] = 240 /\ Len(data) = 19
       \/ data[1] = 241 /\ Len(data) = 20
       \/ data[1] = 165 /\ Len(data) >= 16

\* The acceptance test of on_data (device.py:102-112): data is truthy, at
\* least 16 bytes long, and its header selects a layout of the right length.
Accepts(data) ==
    /\ Len(data) > 0
    /\ Len(data) >= 16
    /\ \/ data[1] = 237 /\ Len(data) = 16
       \/ data[1] = 240 /\ Len(data) = 19
       \/ data[1] = 241 /\ Len(data) = 20
       \/ data[1] = 165 /\ Len(data) >= 16

\* the data1 argument on_data passes to parse_data (device.py:105,108,111,117)
Data1(data) ==
    IF data[1] = 165 THEN Slice(data, 3, 8) ELSE Slice(data, 3, Len(data))

\* the data2 argument on_data passes to parse_data
Data2(data) == Slice(data, 8, Len(data))

\* int(raw / 6 * 100) (device.py:169-170); exact for every byte value
MassagePct(raw) == (raw * 100) \div 6

\* the dict parse_data assigns to current_state (device.py:149-182)
parse_data(data, data1, data2) ==
    LET head_position == FromBytesLE(Slice(data2, 0, 2))
        foot_position == FromBytesLE(Slice(data2, 2, 4))
        remain == FromBytesLE(Slice(data1, 0, 2))
        move == IF Len(data2) > 4 /\ data[1] # 241
                THEN BitAnd(data2[5], 15) ELSE 15
        timer == IF Len(data2) > 5 THEN data2[6] ELSE 255
        hp == IF head_position # 65535 THEN head_position ELSE 0
        fp == IF foot_position # 65535 THEN foot_position ELSE 0
        hm == IF Len(data1) > 4 THEN MassagePct(data1[5]) ELSE 0
        fm == IF Len(data1) > 5 THEN MassagePct(data1[6]) ELSE 0
    IN  [head_position |-> hp,
         foot_position |-> fp,
         head_move     |-> move # 15 /\ BitAnd(move, 1) > 0,
         foot_move     |-> move # 15 /\ BitAnd(move, 2) > 0,
         head_massage  |-> hm,
         foot_massage  |-> fm,
         timer_target  |-> IF timer # 255 /\ 0 < timer /\ timer <= Len(TIMER_OPTIONS)
                           THEN TIMER_OPTIONS[timer] ELSE None,
         timer_remain  |-> remain,
         led           |-> IF Len(data2) > 4 THEN BitAnd(data2[5], 64) > 0 ELSE FALSE,
         scene         |-> hp > MIN_STEP \/ fp > MIN_STEP \/ hm > 0 \/ fm > 0]

\* ------------------------------------------------------------ send_command
\* mutant: the sentinel is tested by its value, self.target_state.get("stop")
StopRequestedByValue(ts) == "stop" \in Keys(ts) /\ Lookup(ts, "stop") = TRUE

\* "stop" in self.target_state (device.py:237)
StopRequested(ts) == "stop" \in Keys(ts)

\* attr.endswith("_position") (device.py:248), over the attribute names in use
is_continuous(attr) ==
    attr \in {"head_position", "foot_position", "lumbar_position", "neck_position"}

\* mutant: the tolerance includes the boundary, abs(current - target) <= MIN_STEP
is_reached_inclusive(current, target) == Abs(current - target) <= MIN_STEP

\* abs(current - target) < MIN_STEP (device.py:252)
is_reached(current, target) == Abs(current - target) < MIN_STEP

\* the command key chosen at device.py:261-265; None for an attr with no keys
DirectionKey(attr, current, target) ==
    IF attr = "head_position"
    THEN (IF current < target THEN "head_up" ELSE "head_down")
    ELSE IF attr = "foot_position"
    THEN (IF current < target THEN "foot_up" ELSE "foot_down")
    ELSE None

\* One iteration of the scan loop for one kind of attribute.  The result says
\* how the iteration ends (act: "continue", "break", or "raise"), the
\* target_state it leaves, the keys it handed to Client.send itself (sent)
\* and the key it bound to command_to_send (cmd).
Step(act, ts, sent, cmd) == [act |-> act, ts |-> ts, sent |-> sent, cmd |-> cmd]

\* device.py:250-270
ContinuousStep(attr, target, cs, ts) ==
    IF attr \notin DOMAIN cs
    THEN Step("raise", ts, <<>>, None)       \* abs(None - target): TypeError
    ELSE IF is_reached(cs[attr], target)
    THEN Step("continue", Pop(ts, attr), <<"stop">>, None)
    ELSE LET key == DirectionKey(attr, cs[attr], target)
         IN  IF key # None /\ key \in DOMAIN COMMANDS_NUS_6BYTE
             THEN Step("break", ts, <<>>, key)
             ELSE Step("continue", ts, <<>>, None)

\* mutant: a zero target is not special and sends the cycle command too
MassageStepAlways(attr, target, cs, ts) ==
    IF attr \in DOMAIN COMMANDS_NUS_6BYTE
    THEN Step("break", Pop(ts, attr), <<>>, attr)
    ELSE Step("continue", ts, <<>>, None)

\* device.py:274-284
MassageStep(attr, target, cs, ts) ==
    IF target = 0
    THEN Step("continue", Pop(ts, attr), <<>>, None)
    ELSE IF attr \in DOMAIN COMMANDS_NUS_6BYTE
    THEN Step("break", Pop(ts, attr), <<>>, attr)
    ELSE Step("continue", ts, <<>>, None)

\* mutant: the preset is selected but its entry is not popped
SceneStepKeep(attr, target, cs, ts) ==
    IF target \in DOMAIN COMMANDS_NUS_6BYTE
    THEN Step("break", ts, <<>>, target)
    ELSE Step("continue", ts, <<>>, None)

\* device.py:287-290
SceneStep(attr, target, cs, ts) ==
    IF target \in DOMAIN COMMANDS_NUS_6BYTE
    THEN Step("break", Pop(ts, attr), <<>>, target)
    ELSE Step("continue", ts, <<>>, None)

\* device.py:293-298
LedStep(attr, target, cs, ts) ==
    IF "led" \notin DOMAIN cs \/ cs["led"] # target     \* None != target
    THEN Step("break", Pop(ts, attr), <<>>, "led_toggle")
    ELSE Step("continue", ts, <<>>, None)

\* device.py:301-304
TimerStep(attr, target, cs, ts) ==
    Step("break", Pop(ts, attr), <<>>, "timer_cycle")

\* the if/elif chain of the loop body (device.py:245-304)
ScanStep(attr, target, cs, ts) ==
    IF is_continuous(attr) THEN ContinuousStep(attr, target, cs, ts)
    ELSE IF attr \in {"head_massage", "foot_massage"}
    THEN MassageStep(attr, target, cs, ts)
    ELSE IF attr = "scene" THEN SceneStep(attr, target, cs, ts)
    ELSE IF attr = "led" THEN LedStep(attr, target, cs, ts)
    ELSE IF attr = "timer_target" THEN TimerStep(attr, target, cs, ts)
    ELSE Step("continue", ts, <<>>, None)

\* for attr, target in list(self.target_state.items()) (device.py:245):
\* items is the snapshot, ts the dict the iterations pop from
RECURSIVE Scan(_, _, _, _, _, _)
Scan(items, i, ts, cs, sent, seen) ==
    IF i > Len(items)
    THEN [ts |-> ts, cmd |-> None, calls |-> sent, scanned |-> seen, err |-> "ok"]
    ELSE LET attr == items[i].attr
             r == ScanStep(attr, items[i].target, cs, ts)
             seen2 == seen \cup {attr}
         IN  IF r.act = "raise"
             THEN [ts |-> r.ts, cmd |-> None, calls |-> sent,
                   scanned |-> seen2, err |-> "TypeError"]
             ELSE IF r.act = "break"
             THEN [ts |-> r.ts, cmd |-> r.cmd, calls |-> sent \o r.sent,
                   scanned |-> seen2, err |-> "ok"]
             ELSE Scan(items, i + 1, r.ts, cs, sent \o r.sent, seen2)

\* mutant: the stop is sent on motion alone, with targets still pending
DefensiveStopAnyTargets(ts, cs) ==
    Truthy(cs, "head_move") \/ Truthy(cs, "foot_move")

\* not self.target_state and (head_move or foot_move) (device.py:310)
DefensiveStop(ts, cs) ==
    Len(ts) = 0 /\ (Truthy(cs, "head_move") \/ Truthy(cs, "foot_move"))

\* the keys the tail of send_command hands to Client.send (device.py:306-311)
SendTail(r, cs) ==
    IF r.cmd # None THEN <<r.cmd>>
    ELSE IF DefensiveStop(r.ts, cs) THEN <<"stop">>
    ELSE <<>>

\* Device.send_command (device.py:233-311): the target_state it leaves, the
\* command keys it hands to Client.send in order, the attrs its loop visited
\* and how it ends
send_command(ts, cs) ==
    IF StopRequested(ts)
    THEN [ts |-> <<>>, calls |-> <<"stop">>, scanned |-> {}, err |-> "ok"]
    ELSE LET r == Scan(ts, 1, ts, cs, <<>>, {})
         IN  [ts |-> r.ts,
              calls |-> IF r.err = "ok" THEN r.calls \o SendTail(r, cs) ELSE r.calls,
              scanned |-> r.scanned,
              err |-> r.err]

\* ------------------------------------------------------------ Client.send
\* mutant: the guard tests only that no send task is pending
SendGateNoLink(cl, up, task) == task = None

\* self.client and self.client.is_connected and not self.send_task (client.py:128)
SendGate(cl, up, task) == cl # None /\ up /\ task = None

\* Client.send (client.py:125-130) on the fields it reads and writes
send(st, data) ==
    IF SendGate(st.client, st.link_up, st.send_task)
    THEN [st EXCEPT !.send_data = data, !.send_task = "task",
                    !.send_pc = "scheduled", !.accepted = data]
    ELSE [st EXCEPT !.send_data = data]

\* the Client.send calls of one handler, in order
RECURSIVE SendAll(_, _, _)
SendAll(st, keys, i) ==
    IF i > Len(keys) THEN st
    ELSE SendAll(send(st, COMMANDS_NUS_6BYTE[keys[i]]), keys, i + 1)

\* the fields of Client that send reads and writes, as a record
SendState ==
    [client |-> client, link_up |-> link_up, send_task |-> send_task,
     send_data |-> send_data, send_pc |-> send_pc, accepted |-> accepted]

\* ------------------------------------------------------------ inputs
\* Status frames offered to on_data.  Byte 0 is the header, bytes 3-4 the
\* massage time left, byte 7 the head massage level, bytes 8-9 and 10-11 the
\* head and foot position, byte 12 the move/LED flags, byte 13 the timer.
FrameHead500 == <<237, 0, 0, 0, 0, 0, 0, 0, 244, 1, 0, 0, 0, 0, 0, 0>>
FrameHead550 == <<237, 0, 0, 0, 0, 0, 0, 3, 38, 2, 188, 2, 65, 1, 0, 0>>
FrameF0      == <<240, 0, 0, 8, 7, 0, 0, 6, 255, 255, 88, 2, 2, 255, 0, 0, 0, 0, 0>>
FrameF1      == <<241, 0, 0, 0, 0, 0, 0, 0, 188, 2, 0, 0, 67, 2, 0, 0, 0, 0, 0, 0>>
FrameA5      == <<165, 11, 13, 0, 0, 0, 0, 1, 188, 2, 244, 1, 64, 3, 0, 0, 0>>

FrameShort   == <<237, 0, 0, 0, 0, 0, 0, 0, 244, 1, 0, 0, 0, 0, 0>>
FrameHdr99   == <<153, 0, 0, 0, 0, 0, 0, 0, 244, 1, 0, 0, 0, 0, 0, 0>>
FrameED17    == <<237, 0, 0, 0, 0, 0, 0, 0, 244, 1, 0, 0, 0, 0, 0, 0, 0>>
FrameF1x19   == <<241, 0, 0, 0, 0, 0, 0, 0, 188, 2, 0, 0, 67, 2, 0, 0, 0, 0, 0>>

GoodFrames == {FrameHead500, FrameHead550, FrameF0, FrameF1, FrameA5}
BadFrames  == {FrameShort, FrameHdr99, FrameED17, FrameF1x19}
Frames     == GoodFrames \cup BadFrames

\* (name, value) pairs offered to set_attribute
Targets ==
    {<<"head_position", 600>>, <<"foot_position", 600>>,
     <<"head_massage", 0>>, <<"head_massage", 50>>,
     <<"foot_massage", 50>>,
     <<"scene", "flat">>, <<"scene", "zerog">>,
     <<"led", TRUE>>, <<"led", FALSE>>,
     <<"timer_target", "10">>,
     <<"stop", TRUE>>, <<"stop", FALSE>>}

\* the most entries target_state holds in the model
MaxTargets == 2

\* ------------------------------------------------------------ the clock
now == 0

\* a deadline d seconds after it was stored
Elapse(t, d) == IF t - d > now THEN t - d ELSE now

\* ------------------------------------------------------------ observation
NoWrite == [by |-> None, payload |-> <<>>, accepted |-> <<>>]

Observe(o, a, d, c, s, e, w) ==
    /\ op' = o
    /\ arg' = a
    /\ did' = d
    /\ calls' = c
    /\ scanned' = s
    /\ err' = e
    /\ written' = w

\* a step that completes no write
Did(o, a, d, c, s, e) == Observe(o, a, d, c, s, e, NoWrite)

\* a coroutine step that calls nothing of Device and writes nothing
Quiet(o) == Did(o, None, {}, <<>>, {}, "ok")

\* a coroutine step that completes the write w
Wrote(o, w) == Observe(o, None, {}, <<>>, {}, "ok", w)

\* ------------------------------------------------------------ Device handlers
\* getattr(self.client, name) succeeds (device.py:126, 228, 231)
ClientHas(name) == name \in ClientAttrs

\* mutant: a task is created whether or not one exists
pingAlways ==
    /\ ping_time' = now + ACTIVE_TIME
    /\ ping_task' = "task"
    /\ ping_loops' = ping_loops + 1
    /\ ping_pc' = "start"

\* Client.ping (client.py:43-47)
ping ==
    /\ ping_time' = now + ACTIVE_TIME
    /\ IF ping_task = None
       THEN /\ ping_task' = "task"
            /\ ping_loops' = ping_loops + 1
            /\ ping_pc' = "start"
       ELSE UNCHANGED <<ping_task, ping_loops, ping_pc>>

\* the Client.send calls of a handler applied to the Client fields
ApplySends(keys) ==
    LET st == SendAll(SendState, keys, 1)
    IN  /\ send_task' = st.send_task
        /\ send_data' = st.send_data
        /\ send_pc' = st.send_pc
        /\ accepted' = st.accepted
        /\ UNCHANGED inflight

\* mutant: a disconnect also forgets the pending targets
on_data_boolClearing(data) ==
    /\ connected' = data
    /\ target_state' = IF data THEN target_state ELSE <<>>
    /\ UNCHANGED <<current_data, current_state>>

\* Device.on_data with a bool (device.py:91-98)
on_data_bool(data) ==
    /\ connected' = data
    /\ UNCHANGED <<current_data, current_state, target_state>>

\* Device.on_data with bytes (device.py:100-126).  caller names the step.
on_data(caller, data) ==
    LET parse == current_data # data /\ Accepts(data)
        cs == IF parse THEN parse_data(data, Data1(data), Data2(data))
              ELSE current_state
        r == send_command(target_state, cs)
        parsed == IF parse THEN {"parse_data", "updates_state"} ELSE {}
    IN  /\ current_data' = IF parse THEN data ELSE current_data
        /\ current_state' = cs
        /\ UNCHANGED connected
        /\ IF Len(target_state) > 0
           THEN /\ target_state' = r.ts
                /\ ApplySends(r.calls)
                /\ Did(caller, data, parsed \cup {"send_command"},
                       r.calls, r.scanned, r.err)
           ELSE /\ UNCHANGED target_state
                /\ IF ClientHas("request_status")
                   THEN /\ ApplySends(<<>>)
                        /\ Did(caller, data, parsed \cup {"request_status"},
                               <<>>, {}, "ok")
                   ELSE /\ UNCHANGED sendVars
                        /\ Did(caller, data, parsed, <<>>, {}, "AttributeError")

\* Device.set_attribute (device.py:222-231)
set_attribute(name, value) ==
    LET ts == SetItem(target_state, name, value)
        r == send_command(ts, current_state)
    IN  /\ Len(ts) <= MaxTargets
        /\ UNCHANGED <<connected, current_data, current_state>>
        /\ UNCHANGED <<client, wake_at, link_up, subscribed, leaked>>
        /\ UNCHANGED pollVars
        /\ IF ~ClientHas("connected")
           THEN \* self.client.connected raises before anything else runs
                /\ target_state' = ts
                /\ UNCHANGED <<ping_task, ping_loops, ping_pc, ping_time>>
                /\ UNCHANGED sendVars
                /\ Did("set_attribute", <<name, value>>, {}, <<>>, {},
                       "AttributeError")
           ELSE \* not reached with ClientAttrs as the source defines it; the rest
                \* of the method as written, reading Device.connected for it
                IF connected
           THEN /\ target_state' = r.ts
                /\ ApplySends(r.calls)
                /\ IF r.err = "ok"
                   THEN ping
                   ELSE UNCHANGED <<ping_task, ping_loops, ping_pc, ping_time>>
                /\ Did("set_attribute", <<name, value>>,
                       IF r.err = "ok" THEN {"send_command", "ping"}
                       ELSE {"send_command"},
                       r.calls, r.scanned, r.err)
           ELSE /\ target_state' = ts
                /\ UNCHANGED sendVars
                /\ ping
                /\ Did("set_attribute", <<name, value>>, {"ping"}, <<>>, {}, "ok")

\* ------------------------------------------------------------ API calls
\* a caller of the facade writes an attribute
SetAttribute(name, value) ==
    /\ set_attribute(name, value)

\* a caller hands a payload to Client.send (client.py:125-130)
Send(data) ==
    /\ LET st == send(SendState, data)
       IN  /\ send_task' = st.send_task
           /\ send_data' = st.send_data
           /\ send_pc' = st.send_pc
           /\ accepted' = st.accepted
    /\ UNCHANGED inflight
    /\ UNCHANGED deviceVars
    /\ UNCHANGED loopVars
    /\ UNCHANGED ping_time
    /\ UNCHANGED pollVars
    /\ Did("send", data, {}, <<>>, {}, "ok")

\* a caller extends the session (Client.ping, client.py:43-47)
Ping ==
    /\ ping
    /\ UNCHANGED deviceVars
    /\ UNCHANGED <<client, wake_at, link_up, subscribed, leaked>>
    /\ UNCHANGED sendVars
    /\ UNCHANGED pollVars
    /\ Quiet("ping")

\* ------------------------------------------------------------ the link
\* a status notification arrives: bleak calls the callback given to
\* start_notify (client.py:61-63) with the frame
Notify(data) ==
    /\ subscribed /\ link_up
    /\ on_data("notify", data)
    /\ UNCHANGED loopVars
    /\ UNCHANGED ping_time
    /\ UNCHANGED pollVars

\* the peripheral drops the link
LinkDrop ==
    /\ link_up
    /\ link_up' = FALSE
    /\ UNCHANGED deviceVars
    /\ UNCHANGED <<client, ping_task, ping_loops, ping_pc, wake_at, subscribed, leaked>>
    /\ UNCHANGED ping_time
    /\ UNCHANGED sendVars
    /\ UNCHANGED pollVars
    /\ Quiet("link_drop")

\* a task made by asyncio.create_task (client.py:47, 72, 130) that has not had
\* its first run: the event loop runs it before it waits for a timer
Runnable == ping_pc = "start" \/ poll_pc = "start" \/ send_pc = "scheduled"

\* d seconds pass
Tick(d) ==
    /\ ~Runnable
    /\ ping_time > now \/ wake_at > now \/ poll_wake_at > now
    /\ ping_time' = Elapse(ping_time, d)
    /\ wake_at' = Elapse(wake_at, d)
    /\ poll_wake_at' = Elapse(poll_wake_at, d)
    /\ UNCHANGED deviceVars
    /\ UNCHANGED <<client, ping_task, ping_loops, ping_pc, link_up, subscribed, leaked>>
    /\ UNCHANGED sendVars
    /\ UNCHANGED <<poll_task, poll_pc>>
    /\ Quiet("tick")

\* ------------------------------------------------------------ _ping_loop
\* mutant: the loop goes on while self.ping_time >= time.time()
WhileCheckInclusive ==
    IF ping_time >= now
    THEN /\ ping_pc' = "connecting"
         /\ UNCHANGED <<ping_task, ping_loops>>
    ELSE /\ ping_pc' = "done"
         /\ ping_task' = None
         /\ ping_loops' = ping_loops - 1

\* while self.ping_time > time.time() (client.py:50), and the exit (client.py:101)
WhileCheck ==
    IF ping_time > now
    THEN /\ ping_pc' = "connecting"
         /\ UNCHANGED <<ping_task, ping_loops>>
    ELSE /\ ping_pc' = "done"
         /\ ping_task' = None
         /\ ping_loops' = ping_loops - 1

\* the finally block up to its sleep (client.py:91-99)
Finally ==
    /\ poll_task' = None
    /\ poll_pc' = "none"
    /\ UNCHANGED poll_wake_at
    /\ client' = None
    /\ on_data_bool(FALSE)
    /\ ping_pc' = "cooldown"
    /\ wake_at' = now + COOLDOWN
    /\ subscribed' = FALSE
    /\ UNCHANGED <<ping_task, ping_loops, ping_time>>
    /\ UNCHANGED sendVars

\* mutant: the deadline is not read again after the sleep
SleepCheckOnce ==
    IF ping_time - now > 0 /\ ping_pc # "sleeping"
    THEN ping_pc' = "sleeping" /\ wake_at' = ping_time
    ELSE ping_pc' = "unsubscribing" /\ UNCHANGED wake_at

\* the inner while (client.py:76-77), then the call of stop_notify (client.py:82)
SleepCheck ==
    IF ping_time - now > 0
    THEN ping_pc' = "sleeping" /\ wake_at' = ping_time
    ELSE ping_pc' = "unsubscribing" /\ UNCHANGED wake_at

\* the task starts: the first test of the while condition
LoopStart ==
    /\ ping_pc = "start"
    /\ WhileCheck
    /\ UNCHANGED deviceVars
    /\ UNCHANGED <<client, wake_at, link_up, subscribed, leaked, ping_time>>
    /\ UNCHANGED sendVars
    /\ UNCHANGED pollVars
    /\ Quiet("loop_start")

\* self.client is a new BleakClient (client.py:54): a write_gatt_char a send
\* task is still awaiting belongs to the previous handle and can only raise
StaleWrite ==
    /\ send_pc' = IF send_pc = "writing" THEN "stale" ELSE send_pc
    /\ UNCHANGED <<send_task, send_data, accepted, inflight>>

\* establish_connection returns (client.py:54-63)
ConnectOk ==
    /\ ping_pc = "connecting"
    /\ client' = "bleak"
    /\ link_up' = TRUE
    /\ on_data_bool(TRUE)
    /\ ping_pc' = "subscribing"
    /\ UNCHANGED <<ping_task, ping_loops, ping_time, wake_at, subscribed, leaked>>
    /\ StaleWrite
    /\ UNCHANGED pollVars
    /\ Did("connect_ok", None, {"callback"}, <<>>, {}, "ok")

\* establish_connection raises (client.py:54, 85-99)
ConnectFail ==
    /\ ping_pc = "connecting"
    /\ Finally
    /\ UNCHANGED <<link_up, leaked>>
    /\ Did("connect_fail", None, {"callback"}, <<>>, {}, "ok")

\* start_notify returns; write_gatt_char is called (client.py:61-69)
SubscribeOk ==
    /\ ping_pc = "subscribing"
    /\ link_up
    /\ subscribed' = TRUE
    /\ ping_pc' = "writing"
    /\ UNCHANGED deviceVars
    /\ UNCHANGED <<client, ping_task, ping_loops, ping_time, wake_at, link_up, leaked>>
    /\ UNCHANGED sendVars
    /\ UNCHANGED pollVars
    /\ Quiet("subscribe_ok")

\* start_notify raises
SubscribeFail ==
    /\ ping_pc = "subscribing"
    /\ Finally
    /\ link_up' = FALSE
    /\ leaked' = (leaked \/ link_up)
    /\ Did("subscribe_fail", None, {"callback"}, <<>>, {}, "ok")

\* the wake-up write returns; the poll task is created (client.py:67-77)
WakeWriteOk ==
    /\ ping_pc = "writing"
    /\ link_up
    /\ poll_task' = "task"
    /\ poll_pc' = "start"
    /\ UNCHANGED poll_wake_at
    /\ SleepCheck
    /\ UNCHANGED deviceVars
    /\ UNCHANGED <<client, ping_task, ping_loops, ping_time, link_up, subscribed, leaked>>
    /\ UNCHANGED sendVars
    /\ Wrote("wake_write_ok", [by |-> "loop", payload |-> WAKEUP_COMMAND_TEST,
                               accepted |-> WAKEUP_COMMAND_TEST])

\* the wake-up write raises
WakeWriteFail ==
    /\ ping_pc = "writing"
    /\ Finally
    /\ link_up' = FALSE
    /\ leaked' = (leaked \/ link_up)
    /\ Did("wake_write_fail", None, {"callback"}, <<>>, {}, "ok")

\* asyncio.sleep(delay) returns (client.py:76-82)
SleepWake ==
    /\ ping_pc = "sleeping"
    /\ wake_at <= now
    /\ SleepCheck
    /\ UNCHANGED deviceVars
    /\ UNCHANGED <<client, ping_task, ping_loops, ping_time, link_up, subscribed, leaked>>
    /\ UNCHANGED sendVars
    /\ UNCHANGED pollVars
    /\ Quiet("sleep_wake")

\* stop_notify returns; disconnect is called (client.py:82-84)
UnsubscribeOk ==
    /\ ping_pc = "unsubscribing"
    /\ link_up
    /\ subscribed' = FALSE
    /\ ping_pc' = "disconnecting"
    /\ UNCHANGED deviceVars
    /\ UNCHANGED <<client, ping_task, ping_loops, ping_time, wake_at, link_up, leaked>>
    /\ UNCHANGED sendVars
    /\ UNCHANGED pollVars
    /\ Quiet("unsubscribe_ok")

\* stop_notify raises
UnsubscribeFail ==
    /\ ping_pc = "unsubscribing"
    /\ Finally
    /\ link_up' = FALSE
    /\ leaked' = (leaked \/ link_up)
    /\ Did("unsubscribe_fail", None, {"callback"}, <<>>, {}, "ok")

\* disconnect returns (client.py:84, 91-99)
DisconnectOk ==
    /\ ping_pc = "disconnecting"
    /\ Finally
    /\ link_up' = FALSE
    /\ UNCHANGED <<leaked>>
    /\ Did("disconnect_ok", None, {"callback"}, <<>>, {}, "ok")

\* disconnect raises
DisconnectFail ==
    /\ ping_pc = "disconnecting"
    /\ Finally
    /\ link_up' = FALSE
    /\ leaked' = (leaked \/ link_up)
    /\ Did("disconnect_fail", None, {"callback"}, <<>>, {}, "ok")

\* the cooldown sleep returns (client.py:99, 50, 101)
CooldownWake ==
    /\ ping_pc = "cooldown"
    /\ wake_at <= now
    /\ WhileCheck
    /\ UNCHANGED deviceVars
    /\ UNCHANGED <<client, wake_at, link_up, subscribed, leaked, ping_time>>
    /\ UNCHANGED sendVars
    /\ UNCHANGED pollVars
    /\ Quiet("cooldown_wake")

\* ------------------------------------------------------------ _poll_status
\* while self.client and self.client.is_connected (client.py:106)
PollCheck ==
    IF client # None /\ link_up
    THEN poll_pc' = "reading"
    ELSE poll_pc' = "done"

\* the poll task starts
PollStart ==
    /\ poll_pc = "start"
    /\ PollCheck
    /\ UNCHANGED deviceVars
    /\ UNCHANGED loopVars
    /\ UNCHANGED <<ping_time, poll_task, poll_wake_at>>
    /\ UNCHANGED sendVars
    /\ Quiet("poll_start")

\* read_gatt_char returns; the frame goes to the callback, whose exception
\* is caught at client.py:119; then the sleep (client.py:109-123)
PollRead(data) ==
    /\ poll_pc = "reading"
    /\ link_up
    /\ on_data("poll", data)
    /\ poll_pc' = "sleeping"
    /\ poll_wake_at' = now + POLL_INTERVAL
    /\ UNCHANGED loopVars
    /\ UNCHANGED <<ping_time, poll_task>>

\* read_gatt_char raises (client.py:117-123)
PollReadFail ==
    /\ poll_pc = "reading"
    /\ poll_pc' = "sleeping"
    /\ poll_wake_at' = now + POLL_INTERVAL
    /\ UNCHANGED deviceVars
    /\ UNCHANGED loopVars
    /\ UNCHANGED <<ping_time, poll_task>>
    /\ UNCHANGED sendVars
    /\ Quiet("poll_read_fail")

\* asyncio.sleep(POLL_INTERVAL) returns (client.py:123, 106)
PollWake ==
    /\ poll_pc = "sleeping"
    /\ poll_wake_at <= now
    /\ PollCheck
    /\ UNCHANGED deviceVars
    /\ UNCHANGED loopVars
    /\ UNCHANGED <<ping_time, poll_task, poll_wake_at>>
    /\ UNCHANGED sendVars
    /\ Quiet("poll_wake")

\* ------------------------------------------------------------ _send_coro
\* the payload _send_coro passes to write_gatt_char (client.py:135-137)
SendPayload == send_data

\* the send task starts: it reads self.client and self.send_data and calls
\* write_gatt_char; with self.client None the AttributeError is caught and
\* the task ends (client.py:133-141)
SendStart ==
    /\ send_pc = "scheduled"
    /\ IF client = None
       THEN /\ send_task' = None
            /\ send_pc' = "none"
            /\ accepted' = None
            /\ UNCHANGED inflight
       ELSE /\ inflight' = SendPayload
            /\ send_pc' = "writing"
            /\ UNCHANGED <<send_task, accepted>>
    /\ UNCHANGED send_data
    /\ UNCHANGED deviceVars
    /\ UNCHANGED loopVars
    /\ UNCHANGED ping_time
    /\ UNCHANGED pollVars
    /\ Quiet("send_start")

\* write_gatt_char returns (client.py:135-141)
SendDone ==
    /\ send_pc = "writing"
    /\ link_up
    /\ send_task' = None
    /\ send_pc' = "none"
    /\ accepted' = None
    /\ inflight' = None
    /\ UNCHANGED send_data
    /\ UNCHANGED deviceVars
    /\ UNCHANGED loopVars
    /\ UNCHANGED ping_time
    /\ UNCHANGED pollVars
    /\ Wrote("send_done", [by |-> "send", payload |-> inflight,
                           accepted |-> accepted])

\* write_gatt_char raises (client.py:138-141)
SendFail ==
    /\ send_pc \in {"writing", "stale"}
    /\ send_task' = None
    /\ send_pc' = "none"
    /\ accepted' = None
    /\ inflight' = None
    /\ UNCHANGED send_data
    /\ UNCHANGED deviceVars
    /\ UNCHANGED loopVars
    /\ UNCHANGED ping_time
    /\ UNCHANGED pollVars
    /\ Quiet("send_fail")

\* ------------------------------------------------------------ specifications
\* Device.__init__ with a BLE device (device.py:61-75), which runs
\* Client.__init__ and its ping() (client.py:26-41)
Init ==
    /\ connected = FALSE
    /\ current_data = NoData
    /\ current_state = [k \in {} |-> None]
    /\ target_state = <<>>
    /\ client = None
    /\ ping_task = "task"
    /\ ping_loops = 1
    /\ ping_time = now + ACTIVE_TIME
    /\ send_task = None
    /\ send_data = None
    /\ poll_task = None
    /\ ping_pc = "start"
    /\ send_pc = "none"
    /\ poll_pc = "none"
    /\ wake_at = now
    /\ poll_wake_at = now
    /\ link_up = FALSE
    /\ subscribed = FALSE
    /\ leaked = FALSE
    /\ written = NoWrite
    /\ op = "init"
    /\ arg = None
    /\ did = {}
    /\ calls = <<>>
    /\ scanned = {}
    /\ err = "ok"
    /\ accepted = None
    /\ inflight = None

\* The reconciliation engine on one session: the session loop connects, frames
\* from F arrive as notifications, callers write the attributes of T, and
\* the send tasks run.
Engine(T, F) ==
    \/ LoopStart
    \/ ConnectOk
    \/ SubscribeOk
    \/ WakeWriteOk
    \/ \E f \in F : Notify(f)
    \/ \E t \in T : SetAttribute(t[1], t[2])
    \/ SendStart
    \/ SendDone
    \/ SendFail

\* continuous targets, the stop sentinel and one preset
PositionTargets ==
    {<<"head_position", 600>>, <<"foot_position", 600>>,
     <<"stop", TRUE>>, <<"stop", FALSE>>, <<"scene", "zerog">>}
PositionFrames == {FrameHead500, FrameHead550, FrameA5, FrameShort}

Next == Engine(PositionTargets, PositionFrames)

Spec == Init /\ [][Next]_vars

\* the stop sentinel beside one target of every kind
StopTargets ==
    {<<"stop", TRUE>>, <<"stop", FALSE>>, <<"head_position", 600>>,
     <<"head_massage", 50>>, <<"scene", "zerog">>, <<"led", TRUE>>,
     <<"timer_target", "10">>}
StopFrames == {FrameHead500, FrameHead550}

NextStop == Engine(StopTargets, StopFrames)

SpecStop == Init /\ [][NextStop]_vars

\* the one-shot attributes, behind or before a continuous target
OneShotTargets ==
    {<<"led", TRUE>>, <<"led", FALSE>>, <<"scene", "flat">>, <<"scene", "zerog">>,
     <<"head_massage", 50>>, <<"head_position", 600>>}
OneShotFrames == {FrameHead500, FrameHead550}

NextOneShot == Engine(OneShotTargets, OneShotFrames)

SpecOneShot == Init /\ [][NextOneShot]_vars

\* the massage attributes, behind or before a continuous target and a preset
MassageTargets ==
    {<<"head_massage", 0>>, <<"head_massage", 50>>,
     <<"foot_massage", 0>>, <<"foot_massage", 50>>,
     <<"head_position", 600>>, <<"scene", "zerog">>}
MassageFrames == {FrameHead500, FrameHead550}

NextMassage == Engine(MassageTargets, MassageFrames)

SpecMassage == Init /\ [][NextMassage]_vars

\* every frame, accepted or not, with targets pending or not
FrameTargets == {<<"head_position", 600>>, <<"led", TRUE>>}

NextFrames == Engine(FrameTargets, Frames)

SpecFrames == Init /\ [][NextFrames]_vars

\* The session loop with its failures, the clock, callers extending the
\* session, the link dropping, and the poll task reading frames.
NextSession ==
    \/ LoopStart
    \/ ConnectOk
    \/ ConnectFail
    \/ SubscribeOk
    \/ SubscribeFail
    \/ WakeWriteOk
    \/ WakeWriteFail
    \/ SleepWake
    \/ UnsubscribeOk
    \/ UnsubscribeFail
    \/ DisconnectOk
    \/ DisconnectFail
    \/ CooldownWake
    \/ Tick(1)
    \/ Ping
    \/ LinkDrop
    \/ PollStart
    \/ \E f \in {FrameHead500} : PollRead(f)
    \/ PollReadFail
    \/ PollWake

SpecSession == Init /\ [][NextSession]_vars

\* The engine on a session whose link operations may fail: the loop cleans up,
\* waits the cooldown and connects again while targets are pending.
ReconnectTargets == {<<"head_position", 600>>, <<"led", TRUE>>}
ReconnectFrames == {FrameHead500}

NextReconnect ==
    \/ Engine(ReconnectTargets, ReconnectFrames)
    \/ ConnectFail
    \/ SubscribeFail
    \/ WakeWriteFail
    \/ CooldownWake
    \/ Tick(1)

SpecReconnect == Init /\ [][NextReconnect]_vars

\* targets that are removed without a command, kept without a command, or
\* that select one, against snapshots at rest, with the head moving and with
\* the foot moving
DefensiveTargets ==
    {<<"head_massage", 0>>, <<"led", TRUE>>, <<"led", FALSE>>,
     <<"head_position", 600>>}
DefensiveFrames == {FrameHead500, FrameHead550, FrameF0}

NextDefensive == Engine(DefensiveTargets, DefensiveFrames)

SpecDefensive == Init /\ [][NextDefensive]_vars

\* Client on its own: callers hand payloads to Client.send while the session
\* loop connects, fails, disconnects and connects again.  One payload is
\* handed over only while the link is not connected, the others only while
\* it is.
OfflinePayload == COMMANDS_NUS_6BYTE["head_up"]
OnlinePayloads == {COMMANDS_NUS_6BYTE["stop"], COMMANDS_NUS_6BYTE["head_down"]}

\* self.client and self.client.is_connected (client.py:128)
LinkConnected == client # None /\ link_up

NextClient ==
    \/ LoopStart
    \/ ConnectOk
    \/ ConnectFail
    \/ SubscribeOk
    \/ SubscribeFail
    \/ WakeWriteOk
    \/ SleepWake
    \/ UnsubscribeOk
    \/ DisconnectOk
    \/ CooldownWake
    \/ Tick(1)
    \/ LinkDrop
    \/ \E p \in OnlinePayloads : LinkConnected /\ Send(p)
    \/ ~LinkConnected /\ Send(OfflinePayload)
    \/ SendStart
    \/ SendDone
    \/ SendFail
    \/ PollStart
    \/ PollReadFail
    \/ PollWake

SpecClient == Init /\ [][NextClient]_vars

\* The session loop, the clock, callers extending the session, the link
\* dropping and a poll task whose reads fail, under the scheduling of asyncio
\* and a link whose operations all end: a created task gets its first run,
\* every await of the session loop returns or raises, every sleep whose
\* deadline has passed returns, and time passes.
NextExpiry ==
    \/ LoopStart
    \/ ConnectOk
    \/ ConnectFail
    \/ SubscribeOk
    \/ SubscribeFail
    \/ WakeWriteOk
    \/ WakeWriteFail
    \/ SleepWake
    \/ UnsubscribeOk
    \/ UnsubscribeFail
    \/ DisconnectOk
    \/ DisconnectFail
    \/ CooldownWake
    \/ Tick(1)
    \/ Ping
    \/ LinkDrop
    \/ PollStart
    \/ PollReadFail
    \/ PollWake

\* the positions and deadlines of the coroutines: every step below changes one
progress == <<ping_pc, poll_pc, ping_time, wake_at, poll_wake_at>>

SessionFairness ==
    /\ WF_progress(LoopStart)
    /\ WF_progress(ConnectOk \/ ConnectFail)
    /\ WF_progress(SubscribeOk \/ SubscribeFail)
    /\ WF_progress(WakeWriteOk \/ WakeWriteFail)
    /\ WF_progress(SleepWake)
    /\ WF_progress(UnsubscribeOk \/ UnsubscribeFail)
    /\ WF_progress(DisconnectOk \/ DisconnectFail)
    /\ WF_progress(CooldownWake)
    /\ WF_progress(PollStart)
    /\ WF_progress(Tick(1))

SpecExpiry == Init /\ [][NextExpiry]_vars /\ SessionFairness

\* ------------------------------------------------------------ claims
\* the last step ran Device.send_command
Ran == "send_command" \in did

\* the number of times key k was handed to Client.send by the last step
Count(k, cs) == Cardinality({i \in 1..Len(cs) : cs[i] = k})

\* C1: one call of send_command hands at most one command to Client.send.
C1_AtMostOneSend == Ran => Len(calls) <= 1

\* C3: a write completed by a send task carries the payload of the send call
\* that created the task; a later send call made while the task was pending
\* does not change what is written.
C3_WritesAccepted == written.by = "send" => written.payload = written.accepted

\* C8: set_attribute called while the device is connected stores the target,
\* runs send_command in the same call, then calls Client.ping, and completes
\* without error.
C8_SetAttributeReconciles ==
    (op = "set_attribute" /\ connected)
        => (err = "ok" /\ {"send_command", "ping"} \subseteq did)

\* the target_state the send_command of this step started from
PreTargets ==
    IF op' = "set_attribute" THEN SetItem(target_state, arg'[1], arg'[2])
    ELSE target_state

\* C2: whenever "stop" is a key of target_state, whatever its value and
\* whatever else is pending, send_command leaves target_state empty and hands
\* Client.send the stop command and nothing else.
C2_StopPrecedence ==
    [][(Ran' /\ "stop" \in Keys(PreTargets))
          => /\ target_state' = <<>>
             /\ calls' = <<"stop">>
             /\ send_data' = COMMANDS_NUS_6BYTE["stop"]
             /\ err' = "ok"]_vars

\* a state right after send_command took its stop branch (it ran, its scan
\* loop visited nothing) and cleared target_state
C2_Witness ==
    /\ op = "notify" /\ Ran
    /\ scanned = {}
    /\ calls = <<"stop">>
    /\ target_state = <<>>

UpKey(attr) == IF attr = "head_position" THEN "head_up" ELSE "foot_up"
DownKey(attr) == IF attr = "head_position" THEN "head_down" ELSE "foot_down"

\* what C4 says of a first pending entry attr -> target at position current
FirstPositionOutcome(attr, target, current) ==
    IF Abs(current - target) >= MIN_STEP
    THEN /\ calls' = <<IF current < target THEN UpKey(attr) ELSE DownKey(attr)>>
         /\ attr \in Keys(target_state')
         /\ Lookup(target_state', attr) = target
    ELSE /\ Len(calls') > 0
         /\ calls'[1] = "stop"
         /\ attr \notin Keys(target_state')

\* the first pending entry is a head or foot position whose current value is known
FirstIsPosition ==
    /\ Len(PreTargets) > 0
    /\ PreTargets[1].attr \in {"head_position", "foot_position"}
    /\ PreTargets[1].attr \in DOMAIN current_state'

LedSatisfied(target) ==
    "led" \in DOMAIN current_state' /\ current_state'["led"] = target

\* C5: a led entry the scan reaches is gone from target_state after the call;
\* no led_toggle is emitted when its target equals the current led state,
\* led_toggle is emitted when it differs.
C5_LedEntryRemoved ==
    [][(Ran' /\ "led" \in scanned')
          => /\ "led" \notin Keys(target_state')
             /\ IF LedSatisfied(Lookup(PreTargets, "led"))
                THEN Count("led_toggle", calls') = 0
                ELSE Count("led_toggle", calls') = 1]_vars

\* what C6 says of a pending massage entry attr
MassageOutcome(attr) ==
    /\ attr \notin Keys(target_state')
    /\ IF Lookup(PreTargets, attr) = 0
       THEN Count(attr, calls') = 0
       ELSE Count(attr, calls') = 1

\* C6 as stated: send_command removes every pending head_massage or
\* foot_massage entry, emitting no massage command for a target of 0 and the
\* attribute's massage command exactly once for a target above 0.
C6_Original ==
    [][\A attr \in {"head_massage", "foot_massage"} :
          (Ran' /\ attr \in Keys(PreTargets)) => MassageOutcome(attr)]_vars

\* C6 amended: the same, for a massage entry the scan of that call reaches.
C6_MassageReached ==
    [][\A attr \in {"head_massage", "foot_massage"} :
          (Ran' /\ attr \in scanned') => MassageOutcome(attr)]_vars

\* a zero head_massage target was removed without a command while the
\* snapshot reports a head massage of 50 percent
C6_Witness ==
    /\ op = "notify" /\ Ran
    /\ "head_massage" \in scanned
    /\ "head_massage" \notin Keys(target_state)
    /\ Count("head_massage", calls) = 0
    /\ "head_massage" \in DOMAIN current_state
    /\ current_state["head_massage"] = 50

\* C7: a call of send_command whose scan reaches the scene entry emits the
\* preset command named by the entry's target and removes the entry in the
\* same call.
C7_SceneOneShot ==
    [][(Ran' /\ "scene" \in scanned')
          => /\ Len(calls') > 0
             /\ calls'[Len(calls')] = Lookup(PreTargets, "scene")
             /\ Count(Lookup(PreTargets, "scene"), calls') = 1
             /\ "scene" \notin Keys(target_state')]_vars

\* the scan reached the scene entry behind a satisfied position entry
C7_Witness ==
    /\ op = "notify" /\ Ran
    /\ scanned = {"head_position", "scene"}
    /\ calls = <<"stop", "flat">>
    /\ "scene" \notin Keys(target_state)

\* the acceptance rule as C9 words it
RejectedByRule(f) ==
    \/ Len(f) < 16
    \/ f[1] \notin {237, 240, 241, 165}
    \/ f[1] = 237 /\ Len(f) # 16
    \/ f[1] = 240 /\ Len(f) # 19
    \/ f[1] = 241 /\ Len(f) # 20

\* C9: a frame that fails the acceptance rule leaves current_state and the
\* remembered last accepted frame unchanged and runs no state observer.
C9_RejectedFrameNoEffect ==
    [][(op' = "notify" /\ RejectedByRule(arg'))
          => /\ current_state' = current_state
             /\ current_data' = current_data
             /\ did' \cap {"parse_data", "updates_state"} = {}]_vars

\* a rejected frame was delivered after some frame had been accepted
C9_Witness ==
    /\ op = "notify"
    /\ RejectedByRule(arg)
    /\ current_data # NoData
    /\ DOMAIN current_state # {}

FailOps ==
    {"connect_fail", "subscribe_fail", "wake_write_fail", "unsubscribe_fail",
     "disconnect_fail"}

\* C10: a failure of connect, subscribe, write, unsubscribe or disconnect
\* leaves the session loop alive and raises nothing: the loop has cleaned up
\* (handle and poll task dropped), notified "disconnected" and entered the
\* cooldown; and the loop leaves the cooldown only once it has elapsed, to
\* connect again if the expiry deadline is still in the future and to exit
\* otherwise.
C10_FailureRecovers ==
    [][/\ op' \in FailOps
          => /\ ping_task' # None
             /\ ping_pc' = "cooldown"
             /\ wake_at' = now + COOLDOWN
             /\ client' = None
             /\ poll_task' = None
             /\ connected' = FALSE
             /\ "callback" \in did'
             /\ err' = "ok"
       /\ (ping_pc = "cooldown" /\ ping_pc' # "cooldown")
          => /\ wake_at <= now
             /\ IF ping_time > now
                THEN ping_pc' = "connecting" /\ ping_task' # None
                ELSE ping_pc' = "done" /\ ping_task' = None]_vars

\* the loop is in its cooldown after a failed subscribe, still alive
C10_Witness ==
    /\ op = "subscribe_fail"
    /\ ping_pc = "cooldown"
    /\ ping_task # None
    /\ connected = FALSE

\* C11: at most one session loop task exists at a time, the handle ping_task
\* is set exactly while one exists, and no extension is lost: an expiry in
\* the future implies a session loop that has not finished, and so does
\* every state right after a ping call.
C11_OneSessionLoop ==
    /\ ping_loops <= 1
    /\ (ping_task # None) <=> (ping_loops = 1)
    /\ (ping_task # None) <=> (ping_pc # "done")
    /\ ping_time > now => ping_task # None
    /\ op = "ping" => (ping_task # None /\ ping_time > now)

\* a ping call made after the loop had exited started a new loop
C11_Witness ==
    /\ op = "ping"
    /\ ping_pc = "start"
    /\ ping_loops = 1
    /\ ping_time = now + ACTIVE_TIME

\* the steps of the session loop that deliver a connectivity change to on_data
ConnectivityOps ==
    {"connect_ok", "connect_fail", "subscribe_fail", "wake_write_fail",
     "unsubscribe_fail", "disconnect_ok", "disconnect_fail"}

\* C12: a connectivity change delivered to on_data sets the connected flag
\* and nothing else of the engine: target_state, current_state and the last
\* frame are unchanged and no command is handed to Client.send.
C12_ConnectivityOnlyFlag ==
    [][op' \in ConnectivityOps
          => /\ connected' = (op' = "connect_ok")
             /\ target_state' = target_state
             /\ current_state' = current_state
             /\ current_data' = current_data
             /\ calls' = <<>>
             /\ send_data' = send_data
             /\ send_task' = send_task
             /\ "send_command" \notin did']_vars

\* a reconnect (an earlier session of this loop ended in a failure after it
\* had connected) delivered "connected" with two targets still pending
C12_Witness ==
    /\ op = "connect_ok"
    /\ connected
    /\ leaked
    /\ Len(target_state) = 2

\* the writes to the command channel that have been started and have not
\* returned: the session loop's own write (client.py:67-69) and the write of
\* the send task (client.py:135-137)
WritesInFlight ==
    (IF ping_pc = "writing" THEN 1 ELSE 0) + (IF send_pc = "writing" THEN 1 ELSE 0)

\* C13: at every moment at most one outbound write to the command channel is
\* in flight, counting the writes of send tasks and the write the session
\* loop performs right after connecting.
C13_OneWriteInFlight == WritesInFlight <= 1

\* C14: every link the session loop established is disconnected before the
\* loop drops its handle, connects again or exits: no handle is dropped while
\* its link is still up.
C14_LinkReleased == ~leaked

\* the motion, preset and stop commands of the command table
MotionPresetStopKeys ==
    {"head_up", "head_down", "foot_up", "foot_down", "lumbar_up", "lumbar_down",
     "neck_up", "neck_down", "flat", "zerog", "snore", "memory1", "memory2",
     "memory3", "stop"}

\* C16: when the session loop's immediate write after a connect completes,
\* "connected" has been notified and the subscription is in force, and the
\* payload written is a status request: it differs from every motion, preset
\* and stop command of the command table.
C16_ConnectSequence ==
    op = "wake_write_ok"
        => /\ connected
           /\ subscribed
           /\ written.by = "loop"
           /\ \A k \in MotionPresetStopKeys : written.payload # COMMANDS_NUS_6BYTE[k]

\* C17: a status frame that arrives while target_state is empty is handled
\* without error: on_data hands no command to Client.send and requests status.
C17_IdleFrameRequestsStatus ==
    [][(op' \in {"notify", "poll"} /\ Len(target_state) = 0)
          => /\ err' = "ok"
             /\ "request_status" \in did'
             /\ calls' = <<>>]_vars

DirectionalKeys == {"head_up", "head_down", "foot_up", "foot_down"}

\* C18: whenever send_command hands a directional motor command to
\* Client.send, it issues a request_status after it in the same call.
C18_StatusAfterMotor ==
    (Ran /\ \E i \in 1..Len(calls) : calls[i] \in DirectionalKeys)
        => "request_status" \in did

\* the position entries the send_command of this step removed: each of them
\* sent one stop from inside the scan (device.py:254-258)
PoppedPositions ==
    Cardinality({k \in {"head_position", "foot_position"} :
                    k \in Keys(PreTargets) /\ k \notin Keys(target_state')})

\* the stops of this step that did not come from inside the scan
DefensiveStops == Count("stop", calls') - PoppedPositions

\* the snapshot reports ongoing motion
Moving ==
    \/ "head_move" \in DOMAIN current_state' /\ current_state'["head_move"]
    \/ "foot_move" \in DOMAIN current_state' /\ current_state'["foot_move"]

\* the scan selected no command: everything sent is a stop
NoCommandSelected == \A i \in 1..Len(calls') : calls'[i] = "stop"

\* C19: a send_command call whose scan selects no command, leaves
\* target_state empty and finds head_move or foot_move true in the snapshot
\* emits one defensive stop; with target_state non-empty, with neither flag
\* true, or with a command selected, it emits none.
C19_DefensiveStop ==
    [][(Ran' /\ "stop" \notin Keys(PreTargets) /\ err' = "ok")
          => DefensiveStops =
                IF NoCommandSelected /\ Len(target_state') = 0 /\ Moving
                THEN 1 ELSE 0]_vars

\* a zero massage target was removed silently while the snapshot reports the
\* foot moving, and the stop was sent
C19_Witness ==
    /\ op = "notify" /\ Ran
    /\ arg = FrameF0
    /\ scanned = {"head_massage"}
    /\ target_state = <<>>
    /\ calls = <<"stop">>

\* C20: a send call made while the link is not connected creates no send
\* task and writes nothing, and its payload is never written later, also not
\* after a reconnect: every write of a send task is that of a task created by
\* a send call made while connected, and carries a payload that was handed
\* over while connected.
C20_OfflineNeverWritten ==
    [][/\ (op' = "send" /\ ~LinkConnected)
          => /\ send_task' = send_task
             /\ send_pc' = send_pc
             /\ written'.by = None
       /\ written'.by = "send"
          => /\ written'.payload # OfflinePayload
             /\ written'.accepted \in OnlinePayloads]_vars

\* between two sessions of the loop (one had connected and failed, the handle
\* is dropped) a payload was handed to send: it sits in the payload slot and
\* no send task was created
C20_Witness ==
    /\ op = "send"
    /\ arg = OfflinePayload
    /\ client = None
    /\ leaked
    /\ send_data = arg
    /\ send_task = None
    /\ ping_pc = "cooldown"

\* the session loop has exited and left nothing behind
LoopGone ==
    /\ ping_task = None
    /\ ping_loops = 0
    /\ poll_task = None
    /\ client = None
    /\ connected = FALSE

\* the loop leaves its sleep for the disconnect, and exits, only with the
\* deadline not in the future
ExpiryRespected ==
    /\ (ping_pc # "unsubscribing" /\ ping_pc' = "unsubscribing") => ping_time' <= now
    /\ (ping_pc # "done" /\ ping_pc' = "done") => ping_time' <= now

\* C15: if Client.ping is called only finitely often, the session loop
\* eventually exits and stays exited: ping_task is None, no poll task exists,
\* the handle is None and the last connectivity notification was
\* "disconnected"; and the loop never starts its disconnect or exits while the
\* deadline is still in the future.
C15_LoopExits ==
    /\ [][ExpiryRespected]_vars
    /\ (<>[](op # "ping")) => <>[]LoopGone

\* the loop has exited after its cooldown with the deadline passed, every
\* link it opened having been disconnected
C15_Witness ==
    /\ op = "cooldown_wake"
    /\ ping_pc = "done"
    /\ LoopGone
    /\ ~leaked

====
